---- MODULE Spec2Model ----
(***************************************************************************)
(* Model of ssc.c, the serial shutter control program: main's sequencing   *)
(* loop, expose() with its two mirror-lockup protocols, set_rts() on the   *)
(* RTS control line, the sleeps, the PHD guider handshake and the SIGINT   *)
(* handler exit_cleanup().                                                 *)
(*                                                                         *)
(* Control is a call stack of statement labels (head = the statement being *)
(* executed; the frames below are the call sites waiting for a return).    *)
(* The SIGINT handler runs as a frame pushed on top of whatever main was   *)
(* executing, exactly as the kernel runs it, and never returns: it ends in *)
(* exit(0).  signal() has BSD semantics under glibc, so SIGINT stays       *)
(* blocked while exit_cleanup runs.                                        *)
(*                                                                         *)
(* Time is in milliseconds.  Only nanosleep() lets time pass: a complete   *)
(* nanosleep lasts exactly the requested time and every other statement is *)
(* instantaneous (the "scheduling tolerance" of the timing claims is 0).   *)
(* Both ioctls of set_rts succeed in Spec; SpecFault lets them fail.        *)
(* Every duration and counter of Spec stays far below 2^31, so the         *)
(* program's unsigned int arithmetic never wraps there.  sleep_verbose's   *)
(* unsigned int msec and sofar are kept at their 32-bit width: a value v   *)
(* of 2^31 or more is held as v - 2^32 (two's complement), and SpecVerbose *)
(* runs sleep_verbose with such values.                                    *)
(***************************************************************************)
EXTENDS Integers, Sequences, FiniteSets, TLC

(* ---------------------------- bounds ---------------------------------- *)
\* largest exposure count (-c) the model runs
MaxCount == 2
\* largest number of seconds given to -t
MaxSecs == 1
\* instants inside one nanosleep at which the model lets a signal arrive:
\* every multiple of TimeStep ms since the call, and its end
TimeStep == 500
\* EINTR returns of nanosleep allowed inside one sleep_quiet call
MaxEintr == 1
\* gettimeofday() reading when the run starts (ms)
StartClock == 1000

(* ------------------------ program constants --------------------------- *)
ANIMATION_STEP == 500
ANIMATION_LEN == 8
\* default of shut_min_pulse (-S is in msec)
DefaultMinPulse == 200
\* static unsigned char phd_cmds[5]
phd_cmds == <<3, 4, 5, 12, 13>>
\* bytes that the read past the end of phd_cmds may find (any unsigned char;
\* the model keeps the smallest, the largest and the one the table ends with)
OobBytes == {0, 13, 255}
\* log_target: NULL or the -l argument
NULL == "NULL"
LogTargets == {NULL, "M42"}
\* seconds given to -p and to -M (both are multiplied by 1000)
PauseSecs == {1}
MluSecs == {0, 1}
\* exit status of a process that has not exited
Running == -1
\* phd_fd of an open socket
SockFd == 4
NoSig == [at |-> <<>>, time |-> -1, frame |-> 0]

VARIABLES
  \* configuration (globals set by getopt, constant during the run)
  exp_count, exp_time, exp_pause, phd_dither_size, log_target,
  mlu_method, mlu_delay, shut_min_pulse, quiet,
  \* program state
  stack,          \* call stack of statement labels, head = executing
  i,              \* main's loop counter
  line,           \* modem control bits of the serial port that are set
  cbits,          \* set_rts: local cbits
  on,             \* set_rts: argument
  exp_start, exp_end, exposing,
  fd_open,        \* the serial port descriptor is open
  phd_fd,         \* -1 or the socket descriptor
  sock,           \* the socket: "none", "created", "connected", "closed"
  sq_msec, t, rem,        \* sleep_quiet: argument, struct timespec t, rem
  sv_msec, sofar, animation_step,   \* sleep_verbose
  exit_status,
  \* environment
  now,            \* wall clock, ms
  slept,          \* ms the current nanosleep call has slept
  eintr,          \* EINTR returns inside the current sleep_quiet call
  ack,            \* guider's side of the socket: "none", "byte", "eof"
  oob,            \* the byte stored after phd_cmds[4]
  log_writable,   \* fopen(fname, "a") succeeds during this run
  \* history
  sig,            \* where and when SIGINT was delivered
  started,        \* frames whose start timestamp was recorded
  logged,         \* calls of log_exposure, in order
  frameTrace,     \* events of the current expose() call
  seqTrace,       \* dither / pause / expose calls and returns of main's loop
  waitFrom,       \* clock when the current top-level wait was called
  wire,           \* bytes written to the guider
  nread           \* bytes read from the guider

cfgVars == <<exp_count, exp_time, exp_pause, phd_dither_size, log_target,
             mlu_method, mlu_delay, shut_min_pulse, quiet, oob, log_writable>>
rtsVars == <<line, cbits, on>>
expVars == <<exp_start, exp_end, exposing, started>>
phdVars == <<phd_fd, sock, ack, wire, nread>>
sqVars == <<sq_msec, t, rem, slept, eintr>>
svVars == <<sv_msec, sofar, animation_step>>
histVars == <<sig, logged, frameTrace, seqTrace, waitFrom>>
vars == <<cfgVars, stack, i, rtsVars, expVars, fd_open, phdVars, sqVars,
          svVars, exit_status, now, histVars>>

(* --------------------------- call stack ------------------------------- *)
Exited == exit_status # Running
At(l) == stack # <<>> /\ Head(stack) = l
\* the statement that follows a call site when its callee returns
After ==
  [l \in {"main_release", "main_connect", "main_dither", "main_pause",
          "main_expose", "e1_fire", "e1_mlu", "e1_wait", "e1_release",
          "e2_fire1", "e2_pulse", "e2_release1", "e2_mlu", "e2_fire2",
          "e2_wait", "e2_release2", "sv_quiet", "sv_tick", "sv_last"} |->
     CASE l = "main_release" -> "main_connect"
       [] l = "main_connect" -> "main_for"
       [] l = "main_dither" -> "main_pause"
       [] l = "main_pause" -> "main_expose"
       [] l = "main_expose" -> "main_log"
       [] l = "e1_fire" -> "e1_mlu"
       [] l = "e1_mlu" -> "e1_start"
       [] l = "e1_wait" -> "e1_unflag"
       [] l = "e1_release" -> "e_return"
       [] l = "e2_fire1" -> "e2_pulse"
       [] l = "e2_pulse" -> "e2_release1"
       [] l = "e2_release1" -> "e2_mlu"
       [] l = "e2_mlu" -> "e2_fire2"
       [] l = "e2_fire2" -> "e2_start"
       [] l = "e2_wait" -> "e2_unflag"
       [] l = "e2_release2" -> "e_return"
       [] l = "sv_quiet" -> "sv_return"
       [] l = "sv_tick" -> "sv_add"
       [] l = "sv_last" -> "sv_done"]
Goto(l) == stack' = <<l>> \o Tail(stack)
Call(l) == stack' = <<l>> \o stack
Caller == stack[2]
Return == stack' = <<After[Caller]>> \o Tail(Tail(stack))
\* call sites of expose() whose callee is a wait
WaitSites == {"e1_mlu", "e1_wait", "e2_pulse", "e2_mlu", "e2_wait"}
\* exit(status)
Exit(status) == /\ stack' = <<>>
                /\ exit_status' = status

(* ------------------------------ Init ---------------------------------- *)
Init ==
  /\ exp_count \in 1..MaxCount
  /\ exp_time \in {atoi * 1000 : atoi \in 1..MaxSecs}
  /\ exp_pause \in {atoi * 1000 : atoi \in PauseSecs}
  /\ phd_dither_size \in 0..5
  /\ log_target \in LogTargets
  /\ mlu_method \in 1..3
  /\ mlu_delay \in {atoi * 1000 : atoi \in MluSecs}
  /\ shut_min_pulse = DefaultMinPulse
  /\ quiet \in {0, 1}
  /\ oob \in IF phd_dither_size >= Len(phd_cmds) THEN OobBytes ELSE {0}
  /\ log_writable \in IF log_target = NULL THEN {TRUE} ELSE BOOLEAN
  /\ stack = <<"main_release">>
  /\ i = 0
  /\ line \in {{"DTR"}, {"DTR", "RTS"}}
  /\ cbits = {}
  /\ on = 0
  /\ exp_start = 0
  /\ exp_end = 0
  /\ exposing = 0
  /\ fd_open = TRUE
  /\ phd_fd = -1
  /\ sock = "none"
  /\ sq_msec = 0
  /\ t = [tv_sec |-> 0, tv_nsec |-> 0]
  /\ rem = [tv_sec |-> 0, tv_nsec |-> 0]
  /\ sv_msec = 0
  /\ sofar = 0
  /\ animation_step = 0
  /\ exit_status = Running
  /\ now = StartClock
  /\ slept = 0
  /\ eintr = 0
  /\ ack = "none"
  /\ sig = NoSig
  /\ started = {}
  /\ logged = <<>>
  /\ frameTrace = <<>>
  /\ seqTrace = <<>>
  /\ waitFrom = 0
  /\ wire = <<>>
  /\ nread = 0

(* ----------------------------- set_rts -------------------------------- *)
\* the control line is Engaged
Engaged == "RTS" \in line
\* shutter_fire() / shutter_release(): set_rts(1) / set_rts(0)
CallSetRts(v) == /\ Call("rts_get")
                 /\ on' = v
\* ioctl(fd, TIOCMGET, &cbits)
RtsGet ==
  /\ At("rts_get")
  /\ cbits' = line
  /\ Goto("rts_set")
  /\ UNCHANGED <<cfgVars, i, line, on, expVars, fd_open, phdVars, sqVars,
                 svVars, exit_status, now, histVars>>
\* cbits |= TIOCM_RTS or cbits &= ~TIOCM_RTS
RtsBits(c, v) == IF v # 0 THEN c \cup {"RTS"} ELSE c \ {"RTS"}
\* ioctl(fd, TIOCMSET, &cbits), and the return to the caller
RtsSet ==
  /\ At("rts_set")
  /\ line' = RtsBits(cbits, on)
  /\ frameTrace' = Append(frameTrace,
                          IF "RTS" \in RtsBits(cbits, on) THEN <<"fire">> ELSE <<"release">>)
  /\ Return
  /\ UNCHANGED <<cfgVars, i, cbits, on, expVars, fd_open, phdVars, sqVars,
                 svVars, exit_status, now, sig, logged, seqTrace, waitFrom>>

(* ------------------------- sleep_quiet -------------------------------- *)
\* struct timespec of a number of milliseconds, as lines 302-303 compute it
TimespecOf(msec) ==
  [tv_sec |-> msec \div 1000,
   tv_nsec |-> (msec - ((msec \div 1000) * 1000)) * 1000000]
\* the time a struct timespec asks nanosleep for, in ms
Millis(ts) == ts.tv_sec * 1000 + ts.tv_nsec \div 1000000
ZeroTs == [tv_sec |-> 0, tv_nsec |-> 0]
\* sleep_quiet(msec) is called
CallSleepQuiet(msec) ==
  /\ Call("sq_entry")
  /\ sq_msec' = msec
  /\ UNCHANGED <<t, rem, slept, eintr>>
\* lines 302-303
SqEntry ==
  /\ At("sq_entry")
  /\ t' = TimespecOf(sq_msec)
  /\ slept' = 0
  /\ eintr' = 0
  /\ Goto("sq_nanosleep")
  /\ UNCHANGED <<cfgVars, i, rtsVars, expVars, fd_open, phdVars, sq_msec, rem,
                 svVars, exit_status, now, histVars>>
\* time passes while nanosleep blocks: up to the next instant the model
\* observes, or to the end of the requested time
Tick ==
  /\ At("sq_nanosleep")
  /\ slept < Millis(t)
  /\ LET toEnd == Millis(t) - slept
         toStep == TimeStep - (slept % TimeStep)
         d == IF toStep < toEnd THEN toStep ELSE toEnd
     IN /\ now' = now + d
        /\ slept' = slept + d
  /\ UNCHANGED <<cfgVars, stack, i, rtsVars, expVars, fd_open, phdVars,
                 sq_msec, t, rem, eintr, svVars, exit_status, histVars>>
\* faulty variant: goto again without t = rem
NanosleepEintrSameT ==
  /\ At("sq_nanosleep")
  /\ slept < Millis(t)
  /\ eintr < MaxEintr
  /\ rem' = TimespecOf(Millis(t) - slept)
  /\ slept' = 0
  /\ eintr' = eintr + 1
  /\ UNCHANGED <<cfgVars, stack, i, rtsVars, expVars, fd_open, phdVars,
                 sq_msec, t, svVars, exit_status, now, histVars>>
\* nanosleep returns -1 with errno EINTR (a signal whose handler returned):
\* rem is the time not slept, t = rem, goto again
NanosleepEintr ==
  /\ At("sq_nanosleep")
  /\ slept < Millis(t)
  /\ eintr < MaxEintr
  /\ rem' = TimespecOf(Millis(t) - slept)
  /\ t' = rem'
  /\ slept' = 0
  /\ eintr' = eintr + 1
  /\ UNCHANGED <<cfgVars, stack, i, rtsVars, expVars, fd_open, phdVars,
                 sq_msec, svVars, exit_status, now, histVars>>
\* nanosleep returns 0 and sleep_quiet returns; its locals are gone
NanosleepDone ==
  /\ At("sq_nanosleep")
  /\ slept = Millis(t)
  /\ Return
  /\ sq_msec' = 0 /\ t' = ZeroTs /\ rem' = ZeroTs /\ slept' = 0 /\ eintr' = 0
  /\ frameTrace' = IF Caller \in WaitSites
                   THEN Append(frameTrace, <<"wait", now - waitFrom>>)
                   ELSE frameTrace
  /\ seqTrace' = IF Caller = "main_pause"
                 THEN Append(seqTrace, <<"ret", "pause", i, now - waitFrom>>)
                 ELSE seqTrace
  /\ UNCHANGED <<cfgVars, i, rtsVars, expVars, fd_open, phdVars, svVars,
                 exit_status, now, sig, logged, waitFrom>>

(* ------------------------ sleep_verbose ------------------------------- *)
\* largest 32-bit signed value; an unsigned int v >= 2^31 is held as
\* v - 2^32
INT_MAX == 2147483647
\* a <= b for unsigned int
U32Le(a, b) == IF (a >= 0) = (b >= 0) THEN a <= b ELSE a >= 0
\* a + b for unsigned int (modulo 2^32)
U32Add(a, b) ==
  IF a >= 0 /\ b >= 0 /\ a > INT_MAX - b
  THEN (a - INT_MAX - 1) + (b - INT_MAX - 1)
  ELSE IF a < 0 /\ b < 0 /\ a < (-INT_MAX - 1) - b
  THEN (a + INT_MAX + 1) + (b + INT_MAX + 1)
  ELSE a + b
\* a - b for unsigned int (modulo 2^32)
U32Sub(a, b) ==
  IF a >= 0 /\ b < 0 /\ a > INT_MAX + b
  THEN (a - INT_MAX - 1) - (b + INT_MAX + 1)
  ELSE IF a < 0 /\ b >= 0 /\ a < (-INT_MAX - 1) + b
  THEN (a + INT_MAX + 1) - (b - INT_MAX - 1)
  ELSE a - b
\* sleep_verbose(msec) is called
CallSleepVerbose(msec) ==
  /\ Call("sv_entry")
  /\ sv_msec' = msec
  /\ UNCHANGED <<sofar, animation_step>>
\* lines 317-322: quiet hands the whole wait to sleep_quiet
SvEntry ==
  /\ At("sv_entry")
  /\ IF quiet # 0
     THEN /\ stack' = <<"sq_entry", "sv_quiet">> \o Tail(stack)
          /\ sq_msec' = sv_msec
          /\ UNCHANGED sofar
     ELSE /\ Goto("sv_loop")
          /\ sofar' = 0
          /\ UNCHANGED sq_msec
  /\ UNCHANGED <<cfgVars, i, rtsVars, expVars, fd_open, phdVars, t, rem, slept,
                 eintr, sv_msec, animation_step, exit_status, now, histVars>>
\* lines 324-331: one more tick of ANIMATION_STEP, or leave the loop
SvLoop ==
  /\ At("sv_loop")
  /\ IF U32Le(U32Add(sofar, ANIMATION_STEP), sv_msec)
     THEN /\ animation_step' = (animation_step + 1) % ANIMATION_LEN
          /\ stack' = <<"sq_entry", "sv_tick">> \o Tail(stack)
          /\ sq_msec' = ANIMATION_STEP
     ELSE /\ stack' = <<"sq_entry", "sv_last">> \o Tail(stack)
          /\ sq_msec' = U32Sub(sv_msec, sofar)
          /\ UNCHANGED animation_step
  /\ UNCHANGED <<cfgVars, i, rtsVars, expVars, fd_open, phdVars, t, rem, slept,
                 eintr, sv_msec, sofar, exit_status, now, histVars>>
\* line 332
SvAdd ==
  /\ At("sv_add")
  /\ sofar' = U32Add(sofar, ANIMATION_STEP)
  /\ Goto("sv_loop")
  /\ UNCHANGED <<cfgVars, i, rtsVars, expVars, fd_open, phdVars, sqVars,
                 sv_msec, animation_step, exit_status, now, histVars>>
\* sleep_verbose returns to expose() (line 319, or lines 337-339)
SvReturn ==
  /\ At("sv_return") \/ At("sv_done")
  /\ Return
  /\ sv_msec' = 0 /\ sofar' = 0
  /\ frameTrace' = IF Caller \in WaitSites
                   THEN Append(frameTrace, <<"wait", now - waitFrom>>)
                   ELSE frameTrace
  /\ UNCHANGED <<cfgVars, i, rtsVars, expVars, fd_open, phdVars, sqVars,
                 animation_step, exit_status, now, sig, logged, seqTrace, waitFrom>>

(* --------------------------- log_exposure ----------------------------- *)
\* "%lu seconds": delta.tv_sec + (delta.tv_usec + 500000) / 1000000
LogSeconds(start, end) ==
  ((end - start) \div 1000) + ((((end - start) % 1000) * 1000 + 500000) \div 1000000)
\* log_exposure(), called by `by` when exp_end holds `end`: nothing without a
\* log target or when the log file cannot be opened, else one line is appended
LogExposure(by, end) ==
  logged' = Append(logged,
                   [frame |-> i, start |-> exp_start, end |-> end, by |-> by,
                    text |-> IF log_target # NULL /\ log_writable
                             THEN <<log_target, LogSeconds(exp_start, end),
                                    exp_start, end>>
                             ELSE <<>>])

(* ------------------------------ expose -------------------------------- *)
\* shutter_fire() / shutter_release() at statement l of expose()
ExposeSetRts(l, v) ==
  /\ At(l)
  /\ CallSetRts(v)
  /\ UNCHANGED <<cfgVars, i, line, cbits, expVars, fd_open, phdVars, sqVars,
                 svVars, exit_status, now, histVars>>
\* sleep_quiet(msec) at statement l of expose()
ExposeSleepQuiet(l, msec) ==
  /\ At(l)
  /\ CallSleepQuiet(msec)
  /\ waitFrom' = now
  /\ UNCHANGED <<cfgVars, i, rtsVars, expVars, fd_open, phdVars, svVars,
                 exit_status, now, sig, logged, frameTrace, seqTrace>>
\* gettimeofday(&exp_start, NULL)
ExposeStart(l, next) ==
  /\ At(l)
  /\ exp_start' = now
  /\ started' = started \cup {i}
  /\ frameTrace' = Append(frameTrace, <<"start">>)
  /\ Goto(next)
  /\ UNCHANGED <<cfgVars, i, rtsVars, exp_end, exposing, fd_open, phdVars,
                 sqVars, svVars, exit_status, now, sig, logged, seqTrace, waitFrom>>
\* exposing = v
ExposeFlag(l, v, next) ==
  /\ At(l)
  /\ exposing' = v
  /\ Goto(next)
  /\ UNCHANGED <<cfgVars, i, rtsVars, exp_start, exp_end, started, fd_open,
                 phdVars, sqVars, svVars, exit_status, now, histVars>>
\* sleep_verbose(exp_time)
ExposeSleepVerbose(l) ==
  /\ At(l)
  /\ CallSleepVerbose(exp_time)
  /\ waitFrom' = now
  /\ UNCHANGED <<cfgVars, i, rtsVars, expVars, fd_open, phdVars, sqVars,
                 exit_status, now, sig, logged, frameTrace, seqTrace>>
\* gettimeofday(&exp_end, NULL)
ExposeEnd(l, next) ==
  /\ At(l)
  /\ exp_end' = now
  /\ frameTrace' = Append(frameTrace, <<"end">>)
  /\ Goto(next)
  /\ UNCHANGED <<cfgVars, i, rtsVars, exp_start, exposing, started, fd_open,
                 phdVars, sqVars, svVars, exit_status, now, sig, logged, seqTrace,
                 waitFrom>>
\* case 1 (lines 130-142)
E1Fire == ExposeSetRts("e1_fire", 1)
E1Mlu == ExposeSleepQuiet("e1_mlu", mlu_delay)
E1Start == ExposeStart("e1_start", "e1_flag")
E1Flag == ExposeFlag("e1_flag", 1, "e1_wait")
\* faulty variant: case 1 adds mlu_delay to the timed wait
E1WaitPlusMlu ==
  /\ At("e1_wait")
  /\ CallSleepVerbose(exp_time + mlu_delay)
  /\ waitFrom' = now
  /\ UNCHANGED <<cfgVars, i, rtsVars, expVars, fd_open, phdVars, sqVars,
                 exit_status, now, sig, logged, frameTrace, seqTrace>>
E1Wait == ExposeSleepVerbose("e1_wait")
E1Unflag == ExposeFlag("e1_unflag", 0, "e1_end")
E1End == ExposeEnd("e1_end", "e1_release")
\* faulty variant: case 1 returns without its shutter_release() of line 141
E1ReleaseForgotten ==
  /\ At("e1_release")
  /\ Goto("e_return")
  /\ UNCHANGED <<cfgVars, i, rtsVars, expVars, fd_open, phdVars, sqVars,
                 svVars, exit_status, now, histVars>>
E1Release == ExposeSetRts("e1_release", 0)
\* case 2 (lines 144-160)
E2Fire1 == ExposeSetRts("e2_fire1", 1)
\* faulty variant: the lockup pulse of case 2 lasts mlu_delay
E2PulseMluDelay == ExposeSleepQuiet("e2_pulse", mlu_delay)
E2Pulse == ExposeSleepQuiet("e2_pulse", shut_min_pulse)
E2Release1 == ExposeSetRts("e2_release1", 0)
E2Mlu == ExposeSleepQuiet("e2_mlu", mlu_delay)
E2Fire2 == ExposeSetRts("e2_fire2", 1)
E2Start == ExposeStart("e2_start", "e2_flag")
E2Flag == ExposeFlag("e2_flag", 1, "e2_wait")
E2Wait == ExposeSleepVerbose("e2_wait")
\* faulty variant: case 2 without exposing = 0 of line 156
E2UnflagForgotten ==
  /\ At("e2_unflag")
  /\ Goto("e2_end")
  /\ UNCHANGED <<cfgVars, i, rtsVars, expVars, fd_open, phdVars, sqVars,
                 svVars, exit_status, now, histVars>>
E2Unflag == ExposeFlag("e2_unflag", 0, "e2_end")
E2End == ExposeEnd("e2_end", "e2_release2")
E2Release2 == ExposeSetRts("e2_release2", 0)
\* default (lines 161-162): only a message
EDefault ==
  /\ At("e_default")
  /\ Goto("e_return")
  /\ UNCHANGED <<cfgVars, i, rtsVars, expVars, fd_open, phdVars, sqVars,
                 svVars, exit_status, now, histVars>>
\* expose() returns to main
ExposeReturn ==
  /\ At("e_return")
  /\ Return
  /\ seqTrace' = Append(seqTrace, <<"ret", "expose", i>>)
  /\ UNCHANGED <<cfgVars, i, rtsVars, expVars, fd_open, phdVars, sqVars,
                 svVars, exit_status, now, sig, logged, frameTrace, waitFrom>>
\* the switch of line 129
ExposeCase == CASE mlu_method = 1 -> "e1_fire"
                [] mlu_method = 2 -> "e2_fire1"
                [] OTHER -> "e_default"

(* ------------------------------- main --------------------------------- *)
\* FATAL(msg): perror(msg); exit(1)
FATAL == Exit(1)
\* line 233
MainRelease ==
  /\ At("main_release")
  /\ CallSetRts(0)
  /\ UNCHANGED <<cfgVars, i, line, cbits, expVars, fd_open, phdVars, sqVars,
                 svVars, exit_status, now, histVars>>
\* line 235
MainConnect ==
  /\ At("main_connect")
  /\ Call("pc_check")
  /\ UNCHANGED <<cfgVars, i, rtsVars, expVars, fd_open, phdVars, sqVars,
                 svVars, exit_status, now, histVars>>
\* line 237: i = 1
MainFor ==
  /\ At("main_for")
  /\ i' = 1
  /\ Goto("main_loop")
  /\ UNCHANGED <<cfgVars, rtsVars, expVars, fd_open, phdVars, sqVars,
                 svVars, exit_status, now, histVars>>
\* line 237: i <= exp_count
MainLoop ==
  /\ At("main_loop")
  /\ IF i <= exp_count THEN Goto("main_dither") ELSE Goto("main_disconnect")
  /\ UNCHANGED <<cfgVars, i, rtsVars, expVars, fd_open, phdVars, sqVars,
                 svVars, exit_status, now, histVars>>
\* faulty variant: the test of line 238 without i != 1
MainDitherEveryFrame ==
  /\ At("main_dither")
  /\ IF phd_dither_size # 0
     THEN /\ Call("pd_write")
          /\ seqTrace' = Append(seqTrace, <<"call", "dither", i>>)
     ELSE /\ Goto("main_pause")
          /\ UNCHANGED seqTrace
  /\ UNCHANGED <<cfgVars, i, rtsVars, expVars, fd_open, phdVars, sqVars,
                 svVars, exit_status, now, sig, logged, frameTrace, waitFrom>>
\* lines 238-243
MainDither ==
  /\ At("main_dither")
  /\ IF i # 1 /\ phd_dither_size # 0
     THEN /\ Call("pd_write")
          /\ seqTrace' = Append(seqTrace, <<"call", "dither", i>>)
     ELSE /\ Goto("main_pause")
          /\ UNCHANGED seqTrace
  /\ UNCHANGED <<cfgVars, i, rtsVars, expVars, fd_open, phdVars, sqVars,
                 svVars, exit_status, now, sig, logged, frameTrace, waitFrom>>
\* faulty variant: the test of line 247 without i != 1
MainPauseEveryFrame ==
  /\ At("main_pause")
  /\ CallSleepQuiet(exp_pause)
  /\ waitFrom' = now
  /\ seqTrace' = Append(seqTrace, <<"call", "pause", i>>)
  /\ UNCHANGED <<cfgVars, i, rtsVars, expVars, fd_open, phdVars, svVars,
                 exit_status, now, sig, logged, frameTrace>>
\* lines 247-248
MainPause ==
  /\ At("main_pause")
  /\ IF i # 1
     THEN /\ CallSleepQuiet(exp_pause)
          /\ waitFrom' = now
          /\ seqTrace' = Append(seqTrace, <<"call", "pause", i>>)
     ELSE /\ Goto("main_expose")
          /\ UNCHANGED <<sqVars, waitFrom, seqTrace>>
  /\ UNCHANGED <<cfgVars, i, rtsVars, expVars, fd_open, phdVars, svVars,
                 exit_status, now, sig, logged, frameTrace>>
\* line 250
MainExpose ==
  /\ At("main_expose")
  /\ Call(ExposeCase)
  /\ frameTrace' = <<>>
  /\ seqTrace' = Append(seqTrace, <<"call", "expose", i>>)
  /\ UNCHANGED <<cfgVars, i, rtsVars, expVars, fd_open, phdVars, sqVars,
                 svVars, exit_status, now, sig, logged, waitFrom>>
\* line 252, and i++
MainLog ==
  /\ At("main_log")
  /\ LogExposure("main", exp_end)
  /\ i' = i + 1
  /\ Goto("main_loop")
  /\ UNCHANGED <<cfgVars, rtsVars, expVars, fd_open, phdVars, sqVars, svVars,
                 exit_status, now, sig, frameTrace, seqTrace, waitFrom>>
\* line 255: phd_disconnect()
MainDisconnect ==
  /\ At("main_disconnect")
  /\ sock' = IF phd_fd # -1 THEN "closed" ELSE sock
  /\ Goto("main_return")
  /\ UNCHANGED <<cfgVars, i, rtsVars, expVars, fd_open, phd_fd, ack, wire,
                 nread, sqVars, svVars, exit_status, now, histVars>>
\* line 257
MainReturn ==
  /\ At("main_return")
  /\ Exit(0)
  /\ UNCHANGED <<cfgVars, i, rtsVars, expVars, fd_open, phdVars, sqVars, svVars,
                 now, histVars>>

(* -------------------------- guider (PHD) ------------------------------ *)
\* faulty variant: phd_connect without the test of line 346
PcCheckAlwaysConnects ==
  /\ At("pc_check")
  /\ Goto("pc_socket")
  /\ UNCHANGED <<cfgVars, i, rtsVars, expVars, fd_open, phdVars, sqVars,
                 svVars, exit_status, now, histVars>>
\* lines 346-347
PcCheck ==
  /\ At("pc_check")
  /\ IF phd_dither_size = 0 THEN Return ELSE Goto("pc_socket")
  /\ UNCHANGED <<cfgVars, i, rtsVars, expVars, fd_open, phdVars, sqVars,
                 svVars, exit_status, now, histVars>>
\* lines 349-350: socket() gives a descriptor or -1
PcSocket ==
  /\ At("pc_socket")
  /\ \/ /\ phd_fd' = SockFd
        /\ sock' = "created"
        /\ Goto("pc_resolve")
        /\ UNCHANGED exit_status
     \/ /\ phd_fd' = -1
        /\ FATAL
        /\ UNCHANGED sock
  /\ UNCHANGED <<cfgVars, i, rtsVars, expVars, fd_open, ack, wire, nread,
                 sqVars, svVars, now, histVars>>
\* lines 352-353: gethostbyname() gives an address or NULL
PcResolve ==
  /\ At("pc_resolve")
  /\ \/ Goto("pc_conn") /\ UNCHANGED exit_status
     \/ FATAL
  /\ UNCHANGED <<cfgVars, i, rtsVars, expVars, fd_open, phdVars, sqVars,
                 svVars, now, histVars>>
\* lines 360-361: connect() succeeds or fails
PcConn ==
  /\ At("pc_conn")
  /\ \/ /\ sock' = "connected"
        /\ Return
        /\ UNCHANGED exit_status
     \/ /\ FATAL
        /\ UNCHANGED sock
  /\ UNCHANGED <<cfgVars, i, rtsVars, expVars, fd_open, phd_fd, ack, wire,
                 nread, sqVars, svVars, now, histVars>>
\* phd_cmds[idx], a C array indexed from 0; past its end the read finds oob
PhdCmd(idx) == IF idx < Len(phd_cmds) THEN phd_cmds[idx + 1] ELSE oob
\* lines 375-376: write() transfers the byte or fails
PdWrite ==
  /\ At("pd_write")
  /\ \/ /\ wire' = Append(wire, PhdCmd(phd_dither_size))
        /\ Goto("pd_read")
        /\ UNCHANGED exit_status
     \/ /\ FATAL
        /\ UNCHANGED wire
  /\ UNCHANGED <<cfgVars, i, rtsVars, expVars, fd_open, phd_fd, sock, ack,
                 nread, sqVars, svVars, now, histVars>>
\* the guider answers a command it has received with one byte
GuiderAck ==
  /\ sock = "connected"
  /\ ack = "none"
  /\ Len(wire) > nread
  /\ ~Exited
  /\ ack' = "byte"
  /\ UNCHANGED <<cfgVars, stack, i, rtsVars, expVars, fd_open, phd_fd, sock,
                 wire, nread, sqVars, svVars, exit_status, now, histVars>>
\* the guider closes the connection instead of answering
GuiderHangup ==
  /\ sock = "connected"
  /\ ack = "none"
  /\ Len(wire) > nread
  /\ ~Exited
  /\ ack' = "eof"
  /\ UNCHANGED <<cfgVars, stack, i, rtsVars, expVars, fd_open, phd_fd, sock,
                 wire, nread, sqVars, svVars, exit_status, now, histVars>>
\* faulty variant: a read() that gives up when no byte is there
PdReadTimesOut ==
  /\ At("pd_read")
  /\ IF ack = "byte"
     THEN /\ nread' = nread + 1
          /\ ack' = "none"
          /\ Return
          /\ UNCHANGED exit_status
     ELSE IF ack = "none"
     THEN /\ Return
          /\ UNCHANGED <<nread, ack, exit_status>>
     ELSE /\ FATAL
          /\ UNCHANGED <<nread, ack>>
  /\ seqTrace' = IF ack = "eof" THEN seqTrace
                 ELSE Append(seqTrace, <<"ret", "dither", i>>)
  /\ UNCHANGED <<cfgVars, i, rtsVars, expVars, fd_open, phd_fd, sock, wire,
                 sqVars, svVars, now, sig, logged, frameTrace, waitFrom>>
\* faulty variant: the result of read() is not compared with 1
PdReadUnchecked ==
  /\ At("pd_read")
  /\ ack # "none"
  /\ nread' = IF ack = "byte" THEN nread + 1 ELSE nread
  /\ ack' = IF ack = "byte" THEN "none" ELSE ack
  /\ Return
  /\ seqTrace' = Append(seqTrace, <<"ret", "dither", i>>)
  /\ UNCHANGED <<cfgVars, i, rtsVars, expVars, fd_open, phd_fd, sock, wire,
                 sqVars, svVars, exit_status, now, sig, logged, frameTrace,
                 waitFrom>>
\* lines 378-379: read() blocks until a byte or the end of the stream
PdRead ==
  /\ At("pd_read")
  /\ ack # "none"
  /\ IF ack = "byte"
     THEN /\ nread' = nread + 1
          /\ ack' = "none"
          /\ Return
          /\ seqTrace' = Append(seqTrace, <<"ret", "dither", i>>)
          /\ UNCHANGED exit_status
     ELSE /\ FATAL
          /\ UNCHANGED <<nread, ack, seqTrace>>
  /\ UNCHANGED <<cfgVars, i, rtsVars, expVars, fd_open, phd_fd, sock, wire,
                 sqVars, svVars, now, sig, logged, frameTrace, waitFrom>>

(* --------------------------- exit_cleanup ----------------------------- *)
\* SIGINT is delivered: exit_cleanup starts on top of the interrupted code
Sigint ==
  /\ ~Exited
  /\ sig = NoSig
  /\ sig' = [at |-> stack, time |-> now, frame |-> i]
  /\ Call("h_release")
  /\ UNCHANGED <<cfgVars, i, rtsVars, expVars, fd_open, phdVars, sqVars,
                 svVars, exit_status, now, logged, frameTrace, seqTrace, waitFrom>>
\* faulty variant: exit_cleanup without its shutter_release() of line 286
HReleaseForgotten ==
  /\ At("h_release")
  /\ Goto("h_check")
  /\ UNCHANGED <<cfgVars, i, rtsVars, expVars, fd_open, phdVars, sqVars,
                 svVars, exit_status, now, histVars>>
\* line 286: shutter_release().  SIGINT is blocked while the handler runs
\* and the handler never returns, so nothing comes between the two ioctls
\* of its set_rts(0)
HRelease ==
  /\ At("h_release")
  /\ line' = RtsBits(line, 0)
  /\ frameTrace' = Append(frameTrace, <<"release">>)
  /\ Goto("h_check")
  /\ UNCHANGED <<cfgVars, i, cbits, on, expVars, fd_open, phdVars, sqVars,
                 svVars, exit_status, now, sig, logged, seqTrace, waitFrom>>
\* faulty variant: exit_cleanup returns to the interrupted code instead of
\* calling exit(0)
HFinishReturns ==
  /\ At("h_check")
  /\ IF exposing # 0
     THEN /\ exposing' = 0
          /\ exp_end' = now
          /\ LogExposure("signal", now)
     ELSE UNCHANGED <<exposing, exp_end, logged>>
  /\ fd_open' = FALSE
  /\ stack' = Tail(stack)
  /\ UNCHANGED <<cfgVars, i, rtsVars, exp_start, started, phdVars, sqVars,
                 svVars, exit_status, now, sig, frameTrace, seqTrace, waitFrom>>
\* faulty variant: exit_cleanup without the test of line 288
HFinishAlwaysLogs ==
  /\ At("h_check")
  /\ exposing' = 0
  /\ exp_end' = now
  /\ LogExposure("signal", now)
  /\ fd_open' = FALSE
  /\ Exit(0)
  /\ UNCHANGED <<cfgVars, i, rtsVars, exp_start, started, phdVars, sqVars,
                 svVars, now, sig, frameTrace, seqTrace, waitFrom>>
\* lines 288-294: finish the exposure in progress, close(fd), exit(0)
HFinish ==
  /\ At("h_check")
  /\ IF exposing # 0
     THEN /\ exposing' = 0
          /\ exp_end' = now
          /\ LogExposure("signal", now)
     ELSE UNCHANGED <<exposing, exp_end, logged>>
  /\ fd_open' = FALSE
  /\ Exit(0)
  /\ UNCHANGED <<cfgVars, i, rtsVars, exp_start, started, phdVars, sqVars,
                 svVars, now, sig, frameTrace, seqTrace, waitFrom>>

(* --------------------------- specification ---------------------------- *)
Next ==
  \/ RtsGet \/ RtsSet
  \/ SqEntry \/ Tick \/ NanosleepEintr \/ NanosleepDone
  \/ SvEntry \/ SvLoop \/ SvAdd \/ SvReturn
  \/ E1Fire \/ E1Mlu \/ E1Start \/ E1Flag \/ E1Wait \/ E1Unflag \/ E1End
  \/ E1Release
  \/ E2Fire1 \/ E2Pulse \/ E2Release1 \/ E2Mlu \/ E2Fire2 \/ E2Start
  \/ E2Flag \/ E2Wait \/ E2Unflag \/ E2End \/ E2Release2
  \/ EDefault \/ ExposeReturn
  \/ MainRelease \/ MainConnect \/ MainFor \/ MainLoop \/ MainDither
  \/ MainPause \/ MainExpose \/ MainLog \/ MainDisconnect \/ MainReturn
  \/ PcCheck \/ PcSocket \/ PcResolve \/ PcConn \/ PdWrite \/ PdRead
  \/ GuiderAck \/ GuiderHangup
  \/ Sigint \/ HRelease \/ HFinish
Spec == Init /\ [][Next]_vars

(* ------------------------- claims: helpers ---------------------------- *)
\* statement l is on the call stack st (executing or waiting for a callee)
OnStack(st, l) == \E k \in 1..Len(st) : st[k] = l
\* number of calls of log_exposure made for frame f
RecordsOf(f) == Cardinality({k \in 1..Len(logged) : logged[k].frame = f})
\* SIGINT arrived after expose() recorded the start timestamp and before
\* sleep_verbose returned
SigInTimedWait ==
  /\ sig # NoSig
  /\ \E l \in {"e1_flag", "e1_wait", "e2_flag", "e2_wait"} : OnStack(sig.at, l)
\* SIGINT arrived inside expose() before the start timestamp was recorded
SigInLockup ==
  /\ sig # NoSig
  /\ \E l \in {"e1_fire", "e1_mlu", "e1_start", "e2_fire1", "e2_pulse",
               "e2_release1", "e2_mlu", "e2_fire2", "e2_start"} :
       OnStack(sig.at, l)
\* main's loop from frame f to frame n of an uninterrupted run with dither
RECURSIVE ExpectedSeq(_, _)
ExpectedSeq(f, n) ==
  IF f > n THEN <<>>
  ELSE (IF f = 1 THEN <<>>
        ELSE <<<<"call", "dither", f>>, <<"ret", "dither", f>>,
               <<"call", "pause", f>>, <<"ret", "pause", f, exp_pause>>>>)
       \o <<<<"call", "expose", f>>, <<"ret", "expose", f>>>>
       \o ExpectedSeq(f + 1, n)
\* the command byte the guider protocol assigns to a dither level
LevelCode == [l \in 1..5 |-> CASE l = 1 -> 3 [] l = 2 -> 4 [] l = 3 -> 5
                               [] l = 4 -> 12 [] l = 5 -> 13]

(* ------------------------------ claims -------------------------------- *)
\* C1: with MLU method 1 or 2 the control line is Released when main is
\* about to call expose() and when expose() has just returned to main.
C1_ReleasedAroundExpose ==
  (mlu_method \in {1, 2} /\ (stack = <<"main_expose">> \/ stack = <<"main_log">>))
    => ~Engaged
\* expose() of the second frame has returned after firing and releasing
C1_Witness ==
  /\ stack = <<"main_log">>
  /\ mlu_method = 2
  /\ i = 2
  /\ Len(frameTrace) = 9
  /\ ~Engaged

\* C2: the control line is Released once main's initial shutter_release has
\* returned, and whenever the process has exited: return from main, FATAL
\* in phd_connect or phd_dither, or exit_cleanup after SIGINT, wherever the
\* signal arrived.
C2_ReleasedAtStartAndExit ==
  /\ stack = <<"main_connect">> => ~Engaged
  /\ Exited => ~Engaged
\* SIGINT arrived between the two ioctls of a shutter_fire() and the process
\* has exited
C2_Witness ==
  /\ Exited
  /\ exit_status = 0
  /\ sig # NoSig
  /\ Head(sig.at) = "rts_set"
  /\ on = 1
  /\ ~Engaged

\* C3: when SIGINT arrives after the start timestamp was recorded and
\* before the timed wait finished, the process exits with exactly one record
\* of that frame handed to log_exposure, whose end timestamp is at or after
\* the signal and before start + exp_time, and with the line Released.
C3_InterruptedWaitRecord ==
  (Exited /\ SigInTimedWait) =>
    /\ RecordsOf(sig.frame) = 1
    /\ \A k \in 1..Len(logged) :
         logged[k].frame = sig.frame =>
           /\ logged[k].end >= sig.time
           /\ logged[k].end < logged[k].start + exp_time
    /\ ~Engaged

\* C4: when SIGINT arrives inside expose() before the start timestamp is
\* recorded (the lockup phases of both methods), the process exits with no
\* timestamp recorded and no record logged for that frame, and with the
\* line Released.
C4_LockupInterruptNoRecord ==
  (Exited /\ SigInLockup) =>
    /\ sig.frame \notin started
    /\ RecordsOf(sig.frame) = 0
    /\ ~Engaged
\* SIGINT arrived during the short pulse of the second frame (method 2),
\* whose line was Engaged, and the process has exited
C4_Witness ==
  /\ Exited
  /\ SigInLockup
  /\ OnStack(sig.at, "e2_pulse")
  /\ Head(sig.at) = "sq_nanosleep"
  /\ sig.frame = 2
  /\ Len(logged) = 1

\* C5: when the process has exited, every frame whose start timestamp was
\* recorded has had its record handed to log_exposure.
C5_NoStartedFrameDropped ==
  Exited => \A f \in started : RecordsOf(f) >= 1

\* C6: with MLU method 2, when expose() returns it has performed exactly
\* fire, wait shut_min_pulse, release, wait mlu_delay, fire, start
\* timestamp, wait exp_time, end timestamp, release (the waits as the clock
\* measures them), and exp_end - exp_start = exp_time.
C6_Method2Sequence ==
  (mlu_method = 2 /\ stack = <<"main_log">>) =>
    /\ frameTrace = << <<"fire">>, <<"wait", shut_min_pulse>>, <<"release">>,
                       <<"wait", mlu_delay>>, <<"fire">>, <<"start">>,
                       <<"wait", exp_time>>, <<"end">>, <<"release">> >>
    /\ exp_end - exp_start = exp_time
\* a method 2 exposure with a lockup delay and progress feedback returned
C6_Witness ==
  /\ mlu_method = 2
  /\ stack = <<"main_log">>
  /\ mlu_delay > 0
  /\ quiet = 0
  /\ exp_end - exp_start = exp_time

\* C7: with MLU method 1, when expose() returns it has performed exactly
\* fire, wait mlu_delay, start timestamp, wait exp_time, end timestamp,
\* release: one engagement lasting mlu_delay + exp_time, while
\* exp_end - exp_start = exp_time.
C7_Method1Sequence ==
  (mlu_method = 1 /\ stack = <<"main_log">>) =>
    /\ frameTrace = << <<"fire">>, <<"wait", mlu_delay>>, <<"start">>,
                       <<"wait", exp_time>>, <<"end">>, <<"release">> >>
    /\ exp_end - exp_start = exp_time
\* a method 1 exposure with a lockup delay and progress feedback returned
C7_Witness ==
  /\ mlu_method = 1
  /\ stack = <<"main_log">>
  /\ mlu_delay > 0
  /\ quiet = 0
  /\ exp_end - exp_start = exp_time

\* C8: a run with dither enabled that returns from main without a signal
\* has run, in this order and one after the other, expose for frame 1 and
\* dither, pause (of exp_pause), expose for every later frame; so dither
\* was called exp_count - 1 times and frame 1 neither dithered nor paused.
C8_DitherPauseExposeOrder ==
  (exit_status = 0 /\ sig = NoSig /\ phd_dither_size # 0) =>
    /\ seqTrace = ExpectedSeq(1, exp_count)
    /\ Len(wire) = exp_count - 1
\* a dithered run of more than one frame returned from main
C8_Witness ==
  /\ exit_status = 0
  /\ sig = NoSig
  /\ phd_dither_size = 3
  /\ exp_count > 1
  /\ Len(wire) = exp_count - 1

\* C9: every byte phd_dither writes is the code of the dither level in the
\* table {1:3, 2:4, 3:5, 4:12, 5:13}, and a dither that has returned has
\* read one byte for each byte written.
C9_DitherCommandTable ==
  /\ \A k \in 1..Len(wire) : wire[k] = LevelCode[phd_dither_size]
  /\ stack = <<"main_pause">> => nread = Len(wire)

\* C10: with an MLU method other than 1 and 2, expose() returns without a
\* transition of the control line and nothing is ever handed to
\* log_exposure.
C10_InvalidMethodNoRecord ==
  mlu_method \notin {1, 2} =>
    /\ stack = <<"main_log">> => frameTrace = <<>>
    /\ logged = <<>>

\* the guider connection as its peer sees it: Connected while the program
\* holds the connected socket; exit() closes every descriptor of the process
GuiderLinkState ==
  IF sock = "connected" /\ ~Exited THEN "Connected" ELSE "Disconnected"

\* C11: wherever SIGINT arrives, the process exits with status 0, with the
\* line Released, with the guider link Disconnected and, when the signal
\* arrived after the start timestamp of a frame was recorded and before its
\* timed wait returned, with a record of that frame, ended at the signal,
\* handed to log_exposure.
C11_GracefulAbort ==
  (Exited /\ sig # NoSig) =>
    /\ exit_status = 0
    /\ ~Engaged
    /\ GuiderLinkState = "Disconnected"
    /\ SigInTimedWait =>
         \E k \in 1..Len(logged) :
           /\ logged[k].frame = sig.frame
           /\ logged[k].by = "signal"
           /\ logged[k].end = sig.time

(* ---------------- set_rts with failing ioctls (C12) ------------------- *)
\* failing ioctls the model lets happen within one frameTrace
MaxFaults == 1
IoctlFailed == <<"ioctl_failed">>
FaultsSoFar == Cardinality({k \in 1..Len(frameTrace) : frameTrace[k] = IoctlFailed})
\* line 265: ioctl(fd, TIOCMGET, &cbits) returns -1, which set_rts does not
\* look at; cbits keeps the indeterminate value of an uninitialised local
RtsGetFail ==
  /\ At("rts_get")
  /\ FaultsSoFar < MaxFaults
  /\ cbits' \in SUBSET {"DTR", "RTS"}
  /\ frameTrace' = Append(frameTrace, IoctlFailed)
  /\ Goto("rts_set")
  /\ UNCHANGED <<cfgVars, i, line, on, expVars, fd_open, phdVars, sqVars,
                 svVars, exit_status, now, sig, logged, seqTrace, waitFrom>>
\* line 271: ioctl(fd, TIOCMSET, &cbits) returns -1, which set_rts does not
\* look at; the line stays as it was and set_rts returns
RtsSetFail ==
  /\ At("rts_set")
  /\ FaultsSoFar < MaxFaults
  /\ frameTrace' = Append(frameTrace, IoctlFailed)
  /\ Return
  /\ UNCHANGED <<cfgVars, i, rtsVars, expVars, fd_open, phdVars, sqVars,
                 svVars, exit_status, now, sig, logged, seqTrace, waitFrom>>
\* line 286 when an ioctl of exit_cleanup's set_rts(0) fails: the line stays
\* as it was and exit_cleanup goes on
HReleaseFail ==
  /\ At("h_release")
  /\ FaultsSoFar < MaxFaults
  /\ frameTrace' = Append(frameTrace, IoctlFailed)
  /\ Goto("h_check")
  /\ UNCHANGED <<cfgVars, i, rtsVars, expVars, fd_open, phdVars, sqVars,
                 svVars, exit_status, now, sig, logged, seqTrace, waitFrom>>
\* the runs with dither off or at level 1 and without a log target
InitSmall ==
  /\ Init
  /\ phd_dither_size \in {0, 1}
  /\ log_target = NULL
NextFault == Next \/ RtsGetFail \/ RtsSetFail \/ HReleaseFail
SpecFault == InitSmall /\ [][NextFault]_vars

\* C12: when an ioctl of set_rts fails the process stops there: the failed
\* ioctl is the last event of the frame (no later line transition, wait or
\* timestamp) and no exposure is flagged or started after it.
C12_IoctlFailureFatal ==
  \A k \in 1..Len(frameTrace) :
    frameTrace[k] = IoctlFailed =>
      /\ k = Len(frameTrace)
      /\ ~At("sq_nanosleep")
      /\ exposing = 0

(* --------------------- the program is scheduled ----------------------- *)
\* the statements of the program and the passing of time, without what the
\* environment may or may not do (signals, the guider's answers)
ProgramNext ==
  \/ RtsGet \/ RtsSet
  \/ SqEntry \/ Tick \/ NanosleepDone
  \/ SvEntry \/ SvLoop \/ SvAdd \/ SvReturn
  \/ E1Fire \/ E1Mlu \/ E1Start \/ E1Flag \/ E1Wait \/ E1Unflag \/ E1End
  \/ E1Release
  \/ E2Fire1 \/ E2Pulse \/ E2Release1 \/ E2Mlu \/ E2Fire2 \/ E2Start
  \/ E2Flag \/ E2Wait \/ E2Unflag \/ E2End \/ E2Release2
  \/ EDefault \/ ExposeReturn
  \/ MainRelease \/ MainConnect \/ MainFor \/ MainLoop \/ MainDither
  \/ MainPause \/ MainExpose \/ MainLog \/ MainDisconnect \/ MainReturn
  \/ PcCheck \/ PcSocket \/ PcResolve \/ PcConn \/ PdWrite \/ PdRead
  \/ HRelease \/ HFinish
\* a process that can run does run, and the clock does not stop
SpecLive == InitSmall /\ [][Next]_vars /\ WF_vars(ProgramNext)

\* main's loop from frame f to frame n of an uninterrupted run without dither
RECURSIVE PlainSeq(_, _)
PlainSeq(f, n) ==
  IF f > n THEN <<>>
  ELSE (IF f = 1 THEN <<>>
        ELSE <<<<"call", "pause", f>>, <<"ret", "pause", f, exp_pause>>>>)
       \o <<<<"call", "expose", f>>, <<"ret", "expose", f>>>>
       \o PlainSeq(f + 1, n)
\* what a run with a valid MLU method and without dither has done when main
\* returned without a signal
C13_AtReturn ==
  (exit_status = 0 /\ sig = NoSig) =>
    /\ Len(logged) = exp_count
    /\ \A k \in 1..Len(logged) :
         /\ logged[k].frame = k
         /\ logged[k].by = "main"
         /\ logged[k].end - logged[k].start = exp_time
    /\ seqTrace = PlainSeq(1, exp_count)
    /\ wire = <<>>
\* C13: a run with MLU method 1 or 2 and dither off ends; when main returns
\* without a signal, log_exposure was called once for each of the frames
\* 1..exp_count, in that order, each with an exposure of exp_time; main ran
\* expose for frame 1 and pause (of exp_pause), expose for every later
\* frame, so exp_count - 1 pauses; no byte went to the guider; and the line
\* is Released all through every pause.
C13_PlainRun ==
  (mlu_method \in {1, 2} /\ phd_dither_size = 0) =>
    /\ [](C13_AtReturn /\ (OnStack(stack, "main_pause") => ~Engaged))
    /\ <>Exited
\* main returned from a run of two frames without dither and without signal
C13_Witness ==
  /\ exit_status = 0
  /\ sig = NoSig
  /\ mlu_method = 2
  /\ phd_dither_size = 0
  /\ exp_count = 2
  /\ Len(logged) = 2

\* C14: a failure of socket, gethostbyname, connect, write or read ends the
\* process there with status 1.  After a failure in phd_connect no frame was
\* ever started and main's loop never ran; after a failure in phd_dither the
\* call of dither for that frame is the last thing main's loop did (no
\* pause, no expose, the line still Released); and once the guider has
\* closed the connection instead of answering, the program is either still
\* at the read or has exited with status 1.
C14_GuiderFaultFatal ==
  /\ exit_status = 1 =>
       /\ ~Engaged
       /\ exposing = 0
       /\ sock \in {"none", "created"} =>
            (started = {} /\ logged = <<>> /\ seqTrace = <<>> /\ i = 0)
       /\ sock = "connected" =>
            /\ seqTrace # <<>>
            /\ seqTrace[Len(seqTrace)] = <<"call", "dither", i>>
            /\ Len(logged) = i - 1
  /\ (ack = "eof" /\ sig = NoSig) =>
       (stack = <<"pd_read", "main_dither">> \/ exit_status = 1)
\* the guider closed the connection after the dither command of frame 2
C14_Witness ==
  /\ exit_status = 1
  /\ ack = "eof"
  /\ i = 2
  /\ Len(wire) = 1
  /\ Len(logged) = 1

\* the statement of main that is executing or waiting for its callee
MainAt == IF stack = <<>> THEN "exited" ELSE stack[Len(stack)]
\* C15: with dither off the socket is never created, no byte is written and
\* phd_dither is never entered, from the start of the run to its end; with
\* dither on the socket is connected all the time main is in its loop
\* (from i = 1, so before the first shutter_fire, to phd_disconnect), and
\* it is closed only by phd_disconnect after the last frame was logged.
C15_GuiderLifetime ==
  /\ phd_dither_size = 0 =>
       /\ sock = "none"
       /\ phd_fd = -1
       /\ GuiderLinkState = "Disconnected"
       /\ wire = <<>>
       /\ ~OnStack(stack, "pd_write") /\ ~OnStack(stack, "pd_read")
  /\ phd_dither_size # 0 =>
       /\ MainAt \in {"main_for", "main_loop", "main_dither", "main_pause",
                      "main_expose", "main_log", "main_disconnect"} =>
            (sock = "connected" /\ GuiderLinkState = "Connected")
       /\ sock = "closed" =>
            /\ MainAt \in {"main_return", "exited"}
            /\ i = exp_count + 1
            /\ Len(logged) = exp_count
\* main returned from a dithered run of two frames and closed the socket
C15_Witness ==
  /\ phd_dither_size = 2
  /\ exp_count = 2
  /\ sock = "closed"
  /\ exit_status = 0
  /\ sig = NoSig

\* while phd_dither runs, and after it, what main's loop has done
C16_Gate ==
  /\ (OnStack(stack, "pd_write") \/ OnStack(stack, "pd_read")) =>
       /\ ~Engaged
       /\ seqTrace[Len(seqTrace)] = <<"call", "dither", i>>
  /\ (phd_dither_size # 0 /\ i >= 2
      /\ MainAt \in {"main_pause", "main_expose", "main_log"}) =>
       /\ nread = i - 1
       /\ Len(wire) = i - 1
\* C16: from the call of phd_dither for frame i until its read has returned,
\* the line is Released and neither the pause nor the expose of frame i has
\* been called; the pause and the exposure of frame i run only with the
\* i - 1 acknowledgements read; and as long as the guider has not answered,
\* the program at the read takes no step at all: whatever happens there is
\* the guider answering or closing, or SIGINT.
C16_HandshakeGate ==
  /\ []C16_Gate
  /\ [][(At("pd_read") /\ ack = "none") => (ack' # "none" \/ sig' # sig)]_vars
\* the program waits at the read for the acknowledgement of frame 2
C16_Witness ==
  /\ At("pd_read")
  /\ ack = "none"
  /\ i = 2
  /\ sig = NoSig
  /\ ~Engaged

\* call sites of sleep_quiet at whose call waitFrom took the clock
TimedSites == {"e1_mlu", "e2_pulse", "e2_mlu", "main_pause", "sv_quiet"}
\* inside sleep_quiet: the time slept since the call plus the time the
\* current nanosleep still has to sleep is the time requested
C17_Remaining ==
  (At("sq_nanosleep") /\ Caller \in TimedSites) =>
    (now - waitFrom) + (Millis(t) - slept) = sq_msec
\* sleep_quiet returns to its caller
C17_Returns ==
  /\ At("sq_nanosleep")
  /\ Caller \in TimedSites
  /\ stack' = <<After[Caller]>> \o Tail(Tail(stack))
\* C17: sleep_quiet(msec) restarts nanosleep with the remaining time after
\* each EINTR, so that time slept plus time still to sleep stays msec; it
\* returns only when the clock has advanced by exactly msec since the call;
\* and with finitely many EINTR a sleep_quiet that has started is left, by
\* its return or by the exit of the process.
C17_SleepQuietExact ==
  /\ []C17_Remaining
  /\ [][C17_Returns => (now - waitFrom = sq_msec /\ now' = now)]_vars
  /\ (At("sq_nanosleep") ~> ~OnStack(stack, "sq_nanosleep"))
\* the pause was interrupted by EINTR and its remaining time is now slept
C17_Witness ==
  /\ At("sq_nanosleep")
  /\ Caller = "main_pause"
  /\ eintr > 0
  /\ Millis(t) < sq_msec
  /\ slept = Millis(t)
  /\ now - waitFrom = sq_msec

(* ------------- sleep_verbose over the unsigned int range (C18) -------- *)
\* timed waits that have run all their ticks but the ones at the end of the
\* unsigned int range: msec, sofar at the test of line 326 and
\* animation_step, after sofar / 500 ticks during which sofar + 500 neither
\* wrapped nor passed msec
WrappedWaits ==
  { \* msec = 4294967000 (-t 4294967 where the int product of line 177 wraps),
    \* sofar = 4294966500 after 8589933 ticks
    [msec |-> -296, sofar |-> -796, animation_step |-> 5],
    \* msec = 4294966704 (-t 8589934, wrapped likewise), sofar = 4294966500
    [msec |-> -592, sofar |-> -796, animation_step |-> 5],
    \* msec = 4294966296 (-t -1), sofar = 4294966000 after 8589932 ticks
    [msec |-> -1000, sofar |-> -1296, animation_step |-> 4] }
\* timed waits the model takes up at the call of sleep_verbose
FreshWaits ==
  {[msec |-> atoi * 1000, sofar |-> 0, animation_step |-> 0] : atoi \in 1..MaxSecs}
\* the clock of SpecVerbose stops this long after the model took up the wait
VerboseHorizon == (MaxSecs + 1) * 1000
\* the call site of sleep_verbose in expose() and the events of the frame
\* that precede the call (lines 131-136, lines 145-154)
VerboseSite == IF mlu_method = 1 THEN "e1_wait" ELSE "e2_wait"
LockupTrace ==
  IF mlu_method = 1
  THEN << <<"fire">>, <<"wait", mlu_delay>>, <<"start">> >>
  ELSE << <<"fire">>, <<"wait", shut_min_pulse>>, <<"release">>,
          <<"wait", mlu_delay>>, <<"fire">>, <<"start">> >>
\* expose() at line 137 or 155: sleep_verbose(exp_time) has just been called
\* (sofar = 0), or is back at the test of its loop (a wait of WrappedWaits,
\* without -q).  The clock (64 bits, it does not wrap) is read from the
\* instant the model takes up the wait.
InitVerbose ==
  /\ exp_count = 1
  /\ exp_pause \in {atoi * 1000 : atoi \in PauseSecs}
  /\ phd_dither_size = 0
  /\ log_target = NULL
  /\ mlu_method \in {1, 2}
  /\ mlu_delay = 0
  /\ shut_min_pulse = DefaultMinPulse
  /\ quiet \in {0, 1}
  /\ oob = 0
  /\ log_writable = TRUE
  /\ \E w \in FreshWaits \cup (IF quiet = 0 THEN WrappedWaits ELSE {}) :
       /\ exp_time = w.msec
       /\ sv_msec = w.msec
       /\ sofar = w.sofar
       /\ animation_step = w.animation_step
       /\ stack = <<IF w \in FreshWaits THEN "sv_entry" ELSE "sv_loop",
                    VerboseSite, "main_expose">>
  /\ i = 1
  /\ line = {"DTR", "RTS"}
  /\ cbits = {"DTR"}
  /\ on = 1
  /\ exp_start = StartClock
  /\ exp_end = 0
  /\ exposing = 1
  /\ fd_open = TRUE
  /\ phd_fd = -1
  /\ sock = "none"
  /\ sq_msec = 0
  /\ t = ZeroTs
  /\ rem = ZeroTs
  /\ exit_status = Running
  /\ now = StartClock
  /\ slept = 0
  /\ eintr = 0
  /\ ack = "none"
  /\ sig = NoSig
  /\ started = {1}
  /\ logged = <<>>
  /\ frameTrace = LockupTrace
  /\ seqTrace = << <<"call", "expose", 1>> >>
  /\ waitFrom = StartClock
  /\ wire = <<>>
  /\ nread = 0
\* sleep_verbose and the sleep_quiet calls it makes
NextVerbose ==
  \/ SvEntry \/ SvLoop \/ SvAdd \/ SvReturn
  \/ SqEntry \/ NanosleepEintr \/ NanosleepDone
  \/ (now - waitFrom < VerboseHorizon /\ Tick)
SpecVerbose == InitVerbose /\ [][NextVerbose]_vars

\* the time the wait had still to run when the model took it up
Requested ==
  IF \E w \in WrappedWaits : w.msec = exp_time
  THEN LET w == CHOOSE w \in WrappedWaits : w.msec = exp_time
       IN U32Sub(w.msec, w.sofar)
  ELSE exp_time
\* C18: with and without -q, for every unsigned int msec, sleep_verbose(msec)
\* never waits longer than msec, and when it returns to expose() the clock
\* has advanced by exactly msec, the line is still Engaged and the events of
\* the frame are the same: those of the lockup, then one wait of msec.
C18_FeedbackObservational ==
  /\ OnStack(stack, VerboseSite) => now - waitFrom <= Requested
  /\ stack = <<After[VerboseSite], "main_expose">> =>
       /\ now - waitFrom = Requested
       /\ Engaged
       /\ frameTrace = Append(LockupTrace, <<"wait", Requested>>)

\* C19: with MLU method 1 or 2, no two calls of log_exposure are for the
\* same frame, whenever SIGINT arrives: a frame logged by exit_cleanup is
\* not logged by main, and a frame logged by main is not logged again by
\* exit_cleanup.
C19_LoggedAtMostOnce ==
  mlu_method \in {1, 2} =>
    \A k1, k2 \in 1..Len(logged) :
      logged[k1].frame = logged[k2].frame => k1 = k2
\* frame 1 was logged by main, frame 2 by exit_cleanup
C19_Witness ==
  /\ mlu_method = 2
  /\ Exited
  /\ Len(logged) = 2
  /\ logged[1].by = "main" /\ logged[1].frame = 1
  /\ logged[2].by = "signal" /\ logged[2].frame = 2

\* the end timestamp of the current frame was recorded by expose()
FrameEnded == \E k \in 1..Len(frameTrace) : frameTrace[k] = <<"end">>
\* the start timestamp of the current frame was recorded and its end was not
FrameOpen == i \in started /\ ~FrameEnded
\* exposing is 0 during the lockup waits, the pause, phd_dither and main's
\* call of log_exposure
FlagClearOutsideWait ==
  (\E l \in {"e1_mlu", "e2_pulse", "e2_mlu", "main_pause", "main_dither",
             "main_log"} : OnStack(stack, l)) => exposing = 0
\* C20 as stated: in every reachable state, exposing set implies the line
\* Engaged, the start timestamp of the current frame recorded and its end
\* timestamp not; and exposing is clear during every lockup wait, pause,
\* dither handshake and logging call.
C20_ExposingImpliesEngaged ==
  /\ exposing # 0 => (Engaged /\ FrameOpen)
  /\ FlagClearOutsideWait
\* C20 amended: the same, except that inside exit_cleanup the line is
\* already Released (line 286) when the flag is tested and cleared (lines
\* 288-289).
C20_ExposingImpliesEngagedOutsideCleanup ==
  /\ exposing # 0 => ((Engaged \/ At("h_check")) /\ FrameOpen)
  /\ FlagClearOutsideWait
\* the flag is set in the middle of the timed wait of frame 2
C20_Witness ==
  /\ exposing # 0
  /\ At("sq_nanosleep")
  /\ slept > 0
  /\ i = 2
  /\ Engaged
  /\ FrameOpen

====
